---- MODULE Spec2Model ----
(***************************************************************************)
(* Model of the iPXE boot-script HTTP handler of boots, ipxe/auto.go:      *)
(* Handler.HandlerFunc, customScriptFound, Handler.serveBootScript,        *)
(* Handler.defaultScript and Handler.customScript.                         *)
(*                                                                         *)
(* Go strings that the code only compares or copies are TLA+ strings.      *)
(* Strings that the code takes apart are sequences: a request path and a   *)
(* peer address are sequences of tokens (a separator, or a maximal run of  *)
(* other characters), a custom chain URL is a sequence of characters.      *)
(* An optional value (a nil pointer, a value not yet produced) is a        *)
(* sequence of length 0 or 1.                                              *)
(***************************************************************************)
EXTENDS Integers, Sequences, FiniteSets, TLC

(* Number of request slots the server handles concurrently. *)
NumReqs == 2

(* Number of inventory updates that may hit the record during a request. *)
MaxUpdates == 2

Reqs == 1..NumReqs

None == <<>>

Some(v) == <<v>>

(* ---------------------------------------------------------------------- *)
(* path.Base, on a path given as tokens.                                   *)
(* ---------------------------------------------------------------------- *)

RECURSIVE StripTrailingSlashes(_)
StripTrailingSlashes(p) ==
  IF Len(p) > 0 /\ p[Len(p)] = "/"
    THEN StripTrailingSlashes(SubSeq(p, 1, Len(p) - 1))
    ELSE p

RECURSIVE LastIndex(_, _)
LastIndex(s, c) ==
  IF Len(s) = 0 THEN 0
  ELSE IF s[Len(s)] = c THEN Len(s)
  ELSE LastIndex(SubSeq(s, 1, Len(s) - 1), c)

RECURSIVE Join(_)
Join(toks) == IF Len(toks) = 0 THEN "" ELSE toks[1] \o Join(Tail(toks))

Base(p) ==
  IF Len(p) = 0 THEN "."
  ELSE LET q == StripTrailingSlashes(p)
           i == LastIndex(q, "/")
           t == SubSeq(q, i + 1, Len(q))
       IN IF Len(t) = 0 THEN "/" ELSE Join(t)

PathSamples ==
  { <<"/", "auto.ipxe">>,
    <<"/", "boot", "/", "auto.ipxe", "/">>,
    <<"/", "auto.ipxe", "/", "snp.efi">>,
    <<>> }

(* ---------------------------------------------------------------------- *)
(* net.SplitHostPort, net.ParseIP and IP.String.                           *)
(* ---------------------------------------------------------------------- *)

Contains(s, c) == \E i \in 1..Len(s) : s[i] = c

(* Addresses without brackets: host is what precedes the last colon. *)
SplitHostPort(addr) ==
  LET i == LastIndex(addr, ":")
      h == SubSeq(addr, 1, i - 1)
  IN IF i = 0 THEN [err |-> TRUE, host |-> ""]
     ELSE IF Contains(h, ":") THEN [err |-> TRUE, host |-> ""]
     ELSE [err |-> FALSE, host |-> Join(h)]

NilIP == <<>>

ClientIP == <<10, 0, 0, 5>>

StrangerIP == <<10, 0, 0, 9>>

IPs == {ClientIP, StrangerIP}

IPString(ip) ==
  IF ip = NilIP THEN "<nil>"
  ELSE ToString(ip[1]) \o "." \o ToString(ip[2]) \o "." \o ToString(ip[3])
       \o "." \o ToString(ip[4])

(* The address whose text is s, nil when s is the text of no address. *)
ParseIP(s) ==
  IF \E ip \in IPs : IPString(ip) = s
    THEN CHOOSE ip \in IPs : IPString(ip) = s
    ELSE NilIP

AddrSamples ==
  { <<"10.0.0.5", ":", "4000">>,
    <<"10.0.0.9", ":", "4000">>,
    <<"10.0.0.5">>,
    <<"fe80", ":", ":", "1", ":", "4000">>,
    <<"localhost", ":", "4000">> }

(* ---------------------------------------------------------------------- *)
(* net.HardwareAddr.String                                                 *)
(* ---------------------------------------------------------------------- *)

HexDigit == <<"0", "1", "2", "3", "4", "5", "6", "7",
              "8", "9", "a", "b", "c", "d", "e", "f">>

HexByte(b) == HexDigit[(b \div 16) + 1] \o HexDigit[(b % 16) + 1]

RECURSIVE MACString(_)
MACString(mac) ==
  IF Len(mac) = 0 THEN ""
  ELSE IF Len(mac) = 1 THEN HexByte(mac[1])
  ELSE HexByte(mac[1]) \o ":" \o MACString(Tail(mac))

IfaceMAC == <<170, 187, 204, 221, 238, 255>>

ZeroMAC == <<0, 0, 0, 0, 0, 0>>

(* ---------------------------------------------------------------------- *)
(* url.Parse, as far as the scheme: control characters, getScheme and the  *)
(* lower-casing of the scheme. The text after the scheme is kept as is.    *)
(* ---------------------------------------------------------------------- *)

LowerLetters == {"a", "f", "h", "i", "p", "s", "t", "x"}

UpperLetters == {"H", "P", "T"}

Digits == {"1", "8"}

CTLChars == {"\t"}

ToLowerChar(c) ==
  CASE c = "H" -> "h"
    [] c = "P" -> "p"
    [] c = "T" -> "t"
    [] OTHER -> c

RECURSIVE ToLower(_)
ToLower(s) == IF Len(s) = 0 THEN <<>> ELSE <<ToLowerChar(s[1])>> \o ToLower(Tail(s))

(* getScheme: scan from position i. *)
RECURSIVE getSchemeFrom(_, _)
getSchemeFrom(raw, i) ==
  IF i > Len(raw) THEN [err |-> FALSE, scheme |-> <<>>, rest |-> raw]
  ELSE LET c == raw[i] IN
    IF c \in LowerLetters \cup UpperLetters THEN getSchemeFrom(raw, i + 1)
    ELSE IF c \in Digits \cup {"+", "-", "."}
      THEN IF i = 1 THEN [err |-> FALSE, scheme |-> <<>>, rest |-> raw]
           ELSE getSchemeFrom(raw, i + 1)
    ELSE IF c = ":"
      THEN IF i = 1 THEN [err |-> TRUE, scheme |-> <<>>, rest |-> <<>>]
           ELSE [err |-> FALSE, scheme |-> SubSeq(raw, 1, i - 1),
                 rest |-> SubSeq(raw, i + 1, Len(raw))]
    ELSE [err |-> FALSE, scheme |-> <<>>, rest |-> raw]

FirstSegment(s) ==
  LET slashes == {i \in 1..Len(s) : s[i] = "/"}
  IN IF slashes = {} THEN s
     ELSE SubSeq(s, 1, (CHOOSE i \in slashes : \A j \in slashes : i <= j) - 1)

urlParse(raw) ==
  IF \E i \in 1..Len(raw) : raw[i] \in CTLChars
    THEN [err |-> TRUE, Scheme |-> <<>>, Rest |-> <<>>]
  ELSE LET g == getSchemeFrom(raw, 1) IN
    IF g.err THEN [err |-> TRUE, Scheme |-> <<>>, Rest |-> <<>>]
    ELSE IF /\ g.scheme = <<>>
            /\ Len(g.rest) > 0
            /\ g.rest[1] # "/"
            /\ Contains(FirstSegment(g.rest), ":")
      THEN [err |-> TRUE, Scheme |-> <<>>, Rest |-> <<>>]
    ELSE [err |-> FALSE, Scheme |-> ToLower(g.scheme), Rest |-> g.rest]

SchemeHTTP == <<"h", "t", "t", "p">>

SchemeHTTPS == <<"h", "t", "t", "p", "s">>

ChainHTTP == <<"h", "t", "t", "p", ":", "/", "/", "a", "/", "x">>

ChainHTTPS == <<"h", "t", "t", "p", "s", ":", "/", "/", "a">>

ChainUpperHTTP == <<"H", "T", "T", "P", ":", "/", "/", "a">>

ChainFTP == <<"f", "t", "p", ":", "/", "/", "a">>

ChainNoScheme == <<"/", "/", "a", "/", "x">>

ChainMissingScheme == <<":", "/", "/", "a">>

ChainCTL == <<"h", "t", "t", "p", ":", "/", "/", "a", "\t">>

ChainDigitFirst == <<"1", "a", ":", "8">>

ChainSamples ==
  { ChainHTTP, ChainHTTPS, ChainUpperHTTP, ChainFTP, ChainNoScheme,
    ChainMissingScheme, ChainCTL, ChainDigitFirst }

ScriptSamples == {"#!ipxe\nexit"}

(* ---------------------------------------------------------------------- *)
(* The hardware record behind client.Discoverer: one network interface,    *)
(* the MAC that GetMAC resolves for the client address, and the instance.  *)
(* ---------------------------------------------------------------------- *)

ArchSamples == {"", "aarch64"}

InstanceSamples == {None, Some([ID |-> ""]), Some([ID |-> "i-42"])}

HardwareRecords ==
  [ ipMAC    : {IfaceMAC, ZeroMAC},
    allow    : BOOLEAN,
    arch     : ArchSamples,
    url      : ChainSamples \cup {<<>>},
    script   : ScriptSamples \cup {""},
    instance : InstanceSamples,
    facility : {"onprem"},
    vlan     : {"16"} ]

(* Discoverer.GetMAC *)
GetMAC(rec, ip) == IF ip = ClientIP THEN rec.ipMAC ELSE ZeroMAC

(* Hardware.HardwareAllowPXE: false when no interface has the MAC. *)
HardwareAllowPXE(rec, mac) == IF mac = IfaceMAC THEN rec.allow ELSE FALSE

(* Hardware.HardwareArch *)
HardwareArch(rec, mac) == IF mac = IfaceMAC THEN rec.arch ELSE ""

(* Hardware.IPXEURL *)
IPXEURL(rec, mac) == IF mac = IfaceMAC THEN rec.url ELSE <<>>

(* Hardware.IPXEScript *)
IPXEScript(rec, mac) == IF mac = IfaceMAC THEN rec.script ELSE ""

(* Hardware.HardwareFacilityCode *)
HardwareFacilityCode(rec) == rec.facility

(* Hardware.GetVLANID *)
GetVLANID(rec, mac) == IF mac = IfaceMAC THEN rec.vlan ELSE ""

(* Discoverer.Instance *)
Instance(rec) == rec.instance

(* HardwareFinder.ByIP: the inventory holds the record of one address. *)
ByIP(ip) == [err |-> ip # ClientIP]

(* GenerateTemplate: the text is the named template filled with the       *)
(* context's fields; a template that does not fit the context is an error. *)
GenerateTemplate(c, tmpl, fits) ==
  IF fits THEN [err |-> FALSE, text |-> Some([template |-> tmpl, fields |-> c])]
  ELSE [err |-> TRUE, text |-> None]

(* ---------------------------------------------------------------------- *)
(* State                                                                   *)
(* ---------------------------------------------------------------------- *)

VARIABLES
  req,             \* per request slot: position, inputs, response, span, locals
  hw,              \* the hardware record held by the inventory service
  updates,         \* inventory updates applied so far
  JobsTotal,       \* metrics.JobsTotal{from: http, op: file}
  JobsInProgress,  \* metrics.JobsInProgress{from: http, op: file}
  JobDuration      \* observations of metrics.JobDuration{from: http, op: file}

vars == <<req, hw, updates, JobsTotal, JobsInProgress, JobDuration>>

metrics == <<JobsTotal, JobsInProgress, JobDuration>>

NewRequest(pc0, path, addr) ==
  [ pc         |-> pc0,
    path       |-> path,
    remoteAddr |-> addr,
    status     |-> 0,        \* 0: no header written
    body       |-> None,
    span       |-> "Unset",
    attrName   |-> None,     \* span attribute boots.script_name
    attrScript |-> None,     \* span attribute ipxe-script
    ip         |-> NilIP,
    lookups    |-> 0,        \* calls of Finder.ByIP
    entered    |-> FALSE,    \* serveBootScript was called
    ipStr      |-> "",
    name       |-> "",
    selURL     |-> None,     \* IPXEURL as read by customScriptFound
    selScript  |-> None,     \* IPXEScript as read by customScriptFound
    renURL     |-> None,     \* IPXEURL as read by customScript
    renScript  |-> None,     \* IPXEScript as read by customScript
    hook       |-> None,     \* the Hook passed to GenerateTemplate
    custom     |-> None,     \* the Custom passed to GenerateTemplate
    script     |-> None,     \* the rendered script
    outcome    |-> "" ]

Idle == NewRequest("idle", <<>>, <<>>)

InitMetrics ==
  /\ JobsTotal = 0
  /\ JobsInProgress = 0
  /\ JobDuration = 0

(* One request at a time against a quiescent inventory. *)
Init ==
  /\ \E p \in PathSamples, a \in AddrSamples :
       req = [r \in Reqs |-> IF r = 1 THEN NewRequest("start", p, a) ELSE Idle]
  /\ hw \in HardwareRecords
  /\ updates = 0
  /\ InitMetrics

Set(r, f) == req' = [req EXCEPT ![r] = f]

(* Leaving the handler body: the deferred calls run next. *)
Return(q, code, how) ==
  [q EXCEPT !.pc = "observe", !.status = code, !.outcome = how]

Fail(q, code, how) ==
  [Return(q, code, how) EXCEPT !.span = "Error"]

(* ---------------------------------------------------------------------- *)
(* Handler.HandlerFunc                                                     *)
(* ---------------------------------------------------------------------- *)

(* CheckPath without the return after the 404. *)
CheckPathNoReturn(r) ==
  /\ req[r].pc = "start"
  /\ IF Base(req[r].path) # "auto.ipxe"
       THEN Set(r, [req[r] EXCEPT !.pc = "total", !.status = 404,
                                  !.outcome = "not found"])
       ELSE Set(r, [req[r] EXCEPT !.pc = "total"])
  /\ UNCHANGED <<hw, updates, metrics>>

(* auto.go:33-38 *)
CheckPath(r) ==
  /\ req[r].pc = "start"
  /\ IF Base(req[r].path) # "auto.ipxe"
       THEN Set(r, [req[r] EXCEPT !.pc = "done", !.status = 404,
                                  !.outcome = "not found"])
       ELSE Set(r, [req[r] EXCEPT !.pc = "total"])
  /\ UNCHANGED <<hw, updates, metrics>>

(* auto.go:40 *)
IncJobsTotal(r) ==
  /\ req[r].pc = "total"
  /\ JobsTotal' = JobsTotal + 1
  /\ Set(r, [req[r] EXCEPT !.pc = "inprogress"])
  /\ UNCHANGED <<hw, updates, JobsInProgress, JobDuration>>

(* auto.go:41-43 *)
IncJobsInProgress(r) ==
  /\ req[r].pc = "inprogress"
  /\ JobsInProgress' = JobsInProgress + 1
  /\ Set(r, [req[r] EXCEPT !.pc = "address"])
  /\ UNCHANGED <<hw, updates, JobsTotal, JobDuration>>

(* ClientAddress leaving on a bad address without the deferred calls. *)
ClientAddressNoDefer(r) ==
  /\ req[r].pc = "address"
  /\ LET sp == SplitHostPort(req[r].remoteAddr) IN
       IF sp.err
         THEN Set(r, [Return(req[r], 500, "bad address") EXCEPT !.pc = "done"])
         ELSE Set(r, [req[r] EXCEPT !.pc = "lookup", !.ip = ParseIP(sp.host)])
  /\ UNCHANGED <<hw, updates, metrics>>

(* auto.go:46-54 *)
ClientAddress(r) ==
  /\ req[r].pc = "address"
  /\ LET sp == SplitHostPort(req[r].remoteAddr) IN
       IF sp.err
         THEN Set(r, Return(req[r], 500, "bad address"))
         ELSE Set(r, [req[r] EXCEPT !.pc = "lookup", !.ip = ParseIP(sp.host)])
  /\ UNCHANGED <<hw, updates, metrics>>

(* auto.go:56-62 *)
LookupHardware(r) ==
  /\ req[r].pc = "lookup"
  /\ LET q == [req[r] EXCEPT !.lookups = @ + 1] IN
       IF ByIP(req[r].ip).err
         THEN Set(r, Return(q, 404, "no hardware"))
         ELSE Set(r, [q EXCEPT !.pc = "gate"])
  /\ UNCHANGED <<hw, updates, metrics>>

(* AllowGate letting a record with a custom chain URL or script through. *)
AllowGateCustomBypass(r) ==
  /\ req[r].pc = "gate"
  /\ IF /\ ~HardwareAllowPXE(hw, GetMAC(hw, req[r].ip))
        /\ hw.url = <<>>
        /\ hw.script = ""
       THEN Set(r, Return(req[r], 404, "not allowed"))
       ELSE Set(r, [req[r] EXCEPT !.pc = "found", !.entered = TRUE,
                                  !.name = Base(req[r].path),
                                  !.ipStr = IPString(req[r].ip),
                                  !.attrName = Some(Base(req[r].path))])
  /\ UNCHANGED <<hw, updates, metrics>>

(* auto.go:69-76, and serveBootScript's entry, auto.go:89-92 *)
AllowGate(r) ==
  /\ req[r].pc = "gate"
  /\ IF ~HardwareAllowPXE(hw, GetMAC(hw, req[r].ip))
       THEN Set(r, Return(req[r], 404, "not allowed"))
       ELSE Set(r, [req[r] EXCEPT !.pc = "found", !.entered = TRUE,
                                  !.name = Base(req[r].path),
                                  !.ipStr = IPString(req[r].ip),
                                  !.attrName = Some(Base(req[r].path))])
  /\ UNCHANGED <<hw, updates, metrics>>

(* ---------------------------------------------------------------------- *)
(* customScriptFound, read by read (the right operand of || is evaluated   *)
(* only when the chain URL is empty). hw is the Discoverer that ByIP       *)
(* returned without an error, so the hw == nil branch is not taken.        *)
(* ---------------------------------------------------------------------- *)

(* auto.go:84-86, 94-96: hw.Hardware().IPXEURL(mac) != "" *)
FoundChain(r) ==
  /\ req[r].pc = "found"
  /\ LET mac == GetMAC(hw, ParseIP(req[r].ipStr))
         u   == IPXEURL(hw, mac)
         q   == [req[r] EXCEPT !.selURL = Some(u)]
     IN IF u # <<>>
          THEN Set(r, [q EXCEPT !.pc = "switch", !.name = "custom.ipxe"])
          ELSE Set(r, [q EXCEPT !.pc = "found script"])
  /\ UNCHANGED <<hw, updates, metrics>>

(* FoundScript selecting the custom script whatever the script body is. *)
FoundScriptAlways(r) ==
  /\ req[r].pc = "found script"
  /\ LET mac == GetMAC(hw, ParseIP(req[r].ipStr))
         s   == IPXEScript(hw, mac)
     IN Set(r, [req[r] EXCEPT !.selScript = Some(s), !.pc = "switch",
                              !.name = "custom.ipxe"])
  /\ UNCHANGED <<hw, updates, metrics>>

(* auto.go:86, 94-96: hw.Hardware().IPXEScript(mac) != "" *)
FoundScript(r) ==
  /\ req[r].pc = "found script"
  /\ LET mac == GetMAC(hw, ParseIP(req[r].ipStr))
         s   == IPXEScript(hw, mac)
         q   == [req[r] EXCEPT !.selScript = Some(s), !.pc = "switch"]
     IN IF s # ""
          THEN Set(r, [q EXCEPT !.name = "custom.ipxe"])
          ELSE Set(r, q)
  /\ UNCHANGED <<hw, updates, metrics>>

(* ---------------------------------------------------------------------- *)
(* Handler.defaultScript and Handler.customScript                          *)
(* ---------------------------------------------------------------------- *)

(* The Handler's configuration. *)
Handler ==
  [ OSIEURL            |-> "http://boots.example/misc/osie/current",
    ExtraKernelParams  |-> <<"tink_worker_image=quay.io/tinkerbell/tink-worker">>,
    PublicSyslogFQDN   |-> "syslog.example",
    TinkServerTLS      |-> FALSE,
    TinkServerGRPCAddr |-> "tink.example:42113" ]

(* defaultScript passing the architecture on as the record has it. *)
defaultScriptNoArchDefault(rec, ipStr, fits) ==
  LET mac  == GetMAC(rec, ParseIP(ipStr))
      inst == Instance(rec)
      wID  == IF inst # None /\ inst[1].ID # "" THEN inst[1].ID ELSE MACString(mac)
      auto == [ Arch              |-> HardwareArch(rec, mac),
                Console           |-> "",
                DownloadURL       |-> Handler.OSIEURL,
                ExtraKernelParams |-> Handler.ExtraKernelParams,
                Facility          |-> HardwareFacilityCode(rec),
                HWAddr            |-> MACString(mac),
                SyslogHost        |-> Handler.PublicSyslogFQDN,
                TinkerbellTLS     |-> Handler.TinkServerTLS,
                TinkGRPCAuthority |-> Handler.TinkServerGRPCAddr,
                VLANID            |-> GetVLANID(rec, mac),
                WorkerID          |-> wID ]
      out  == GenerateTemplate(auto, "HookScript", fits)
  IN [err |-> out.err, text |-> out.text, hook |-> Some(auto)]

(* defaultScript taking the id of any instance, also an empty one. *)
defaultScriptAnyInstance(rec, ipStr, fits) ==
  LET mac  == GetMAC(rec, ParseIP(ipStr))
      a    == HardwareArch(rec, mac)
      arch == IF a = "" THEN "x86_64" ELSE a
      inst == Instance(rec)
      wID  == IF inst # None THEN inst[1].ID ELSE MACString(mac)
      auto == [ Arch              |-> arch,
                Console           |-> "",
                DownloadURL       |-> Handler.OSIEURL,
                ExtraKernelParams |-> Handler.ExtraKernelParams,
                Facility          |-> HardwareFacilityCode(rec),
                HWAddr            |-> MACString(mac),
                SyslogHost        |-> Handler.PublicSyslogFQDN,
                TinkerbellTLS     |-> Handler.TinkServerTLS,
                TinkGRPCAuthority |-> Handler.TinkServerGRPCAddr,
                VLANID            |-> GetVLANID(rec, mac),
                WorkerID          |-> wID ]
      out  == GenerateTemplate(auto, "HookScript", fits)
  IN [err |-> out.err, text |-> out.text, hook |-> Some(auto)]

(* auto.go:138-167, without the trace id of a sampled span. *)
defaultScript(rec, ipStr, fits) ==
  LET mac  == GetMAC(rec, ParseIP(ipStr))
      a    == HardwareArch(rec, mac)
      arch == IF a = "" THEN "x86_64" ELSE a
      inst == Instance(rec)
      wID  == IF inst # None /\ inst[1].ID # "" THEN inst[1].ID ELSE MACString(mac)
      auto == [ Arch              |-> arch,
                Console           |-> "",
                DownloadURL       |-> Handler.OSIEURL,
                ExtraKernelParams |-> Handler.ExtraKernelParams,
                Facility          |-> HardwareFacilityCode(rec),
                HWAddr            |-> MACString(mac),
                SyslogHost        |-> Handler.PublicSyslogFQDN,
                TinkerbellTLS     |-> Handler.TinkServerTLS,
                TinkGRPCAuthority |-> Handler.TinkServerGRPCAddr,
                VLANID            |-> GetVLANID(rec, mac),
                WorkerID          |-> wID ]
      out  == GenerateTemplate(auto, "HookScript", fits)
  IN [err |-> out.err, text |-> out.text, hook |-> Some(auto)]

(* customChain with || for && in the scheme check: every scheme is refused. *)
customChainOr(chain, fits) ==
  LET u == urlParse(chain) IN
    IF u.err THEN [err |-> TRUE, text |-> None, custom |-> None]
    ELSE IF u.Scheme # SchemeHTTP \/ u.Scheme # SchemeHTTPS
      THEN [err |-> TRUE, text |-> None, custom |-> None]
    ELSE LET c   == [Chain |-> Some([Scheme |-> u.Scheme, Rest |-> u.Rest]),
                     Script |-> ""]
             out == GenerateTemplate(c, "CustomScript", fits)
         IN [err |-> out.err, text |-> out.text, custom |-> Some(c)]

(* customChain without the scheme check. *)
customChainAnyScheme(chain, fits) ==
  LET u == urlParse(chain) IN
    IF u.err THEN [err |-> TRUE, text |-> None, custom |-> None]
    ELSE LET c   == [Chain |-> Some([Scheme |-> u.Scheme, Rest |-> u.Rest]),
                     Script |-> ""]
             out == GenerateTemplate(c, "CustomScript", fits)
         IN [err |-> out.err, text |-> out.text, custom |-> Some(c)]

(* auto.go:173-181: the branch of customScript for a non-empty chain URL. *)
customChain(chain, fits) ==
  LET u == urlParse(chain) IN
    IF u.err THEN [err |-> TRUE, text |-> None, custom |-> None]
    ELSE IF u.Scheme # SchemeHTTP /\ u.Scheme # SchemeHTTPS
      THEN [err |-> TRUE, text |-> None, custom |-> None]
    ELSE LET c   == [Chain |-> Some([Scheme |-> u.Scheme, Rest |-> u.Rest]),
                     Script |-> ""]
             out == GenerateTemplate(c, "CustomScript", fits)
         IN [err |-> out.err, text |-> out.text, custom |-> Some(c)]

(* auto.go:183-188: the branch of customScript for an empty chain URL. *)
customBody(script, fits) ==
  IF script # ""
    THEN LET c   == [Chain |-> None, Script |-> script]
             out == GenerateTemplate(c, "CustomScript", fits)
         IN [err |-> out.err, text |-> out.text, custom |-> Some(c)]
    ELSE [err |-> TRUE, text |-> None, custom |-> None]

(* ---------------------------------------------------------------------- *)
(* Handler.serveBootScript                                                 *)
(* ---------------------------------------------------------------------- *)

(* auto.go:128: the script is rendered; the write is next. *)
Rendered(q, text) ==
  [q EXCEPT !.pc = "write", !.script = text, !.attrScript = text]

(* auto.go:97-127, with customScript up to its read of the chain URL *)
Switch(r) ==
  /\ req[r].pc = "switch"
  /\ \E fits \in BOOLEAN :
       CASE req[r].name = "auto.ipxe" ->
              LET d == defaultScript(hw, req[r].ipStr, fits)
                  q == [req[r] EXCEPT !.hook = d.hook]
              IN IF d.err
                   THEN Set(r, Fail(q, 500, "default script error"))
                   ELSE Set(r, Rendered(q, d.text))
         [] req[r].name = "custom.ipxe" ->
              LET mac   == GetMAC(hw, ParseIP(req[r].ipStr))
                  chain == IPXEURL(hw, mac)
                  q     == [req[r] EXCEPT !.renURL = Some(chain)]
              IN IF chain # <<>>
                   THEN LET c  == customChain(chain, fits)
                            q2 == [q EXCEPT !.custom = c.custom]
                        IN IF c.err
                             THEN Set(r, Fail(q2, 500, "custom script error"))
                             ELSE Set(r, Rendered(q2, c.text))
                   ELSE Set(r, [q EXCEPT !.pc = "custom script"])
         [] OTHER ->
              Set(r, Fail(req[r], 404, "script not found"))
  /\ UNCHANGED <<hw, updates, metrics>>

(* auto.go:110-119, with customScript from its read of the script body *)
CustomScriptBody(r) ==
  /\ req[r].pc = "custom script"
  /\ \E fits \in BOOLEAN :
       LET mac == GetMAC(hw, ParseIP(req[r].ipStr))
           s   == IPXEScript(hw, mac)
           c   == customBody(s, fits)
           q   == [req[r] EXCEPT !.renScript = Some(s), !.custom = c.custom]
       IN IF c.err
            THEN Set(r, Fail(q, 500,
                   IF s = "" THEN "no custom script" ELSE "custom script error"))
            ELSE Set(r, Rendered(q, c.text))
  /\ UNCHANGED <<hw, updates, metrics>>

(* auto.go:130-135: Write sends the 200 header first when none was sent. *)
WriteScript(r) ==
  /\ req[r].pc = "write"
  /\ \E sent \in BOOLEAN :
       IF sent
         THEN Set(r, [Return(req[r], 200, "served") EXCEPT !.body = req[r].script])
         ELSE Set(r, Fail(req[r], 200, "write error"))
  /\ UNCHANGED <<hw, updates, metrics>>

(* ---------------------------------------------------------------------- *)
(* The deferred calls of HandlerFunc, last deferred first.                 *)
(* ---------------------------------------------------------------------- *)

(* auto.go:44 *)
ObserveDuration(r) ==
  /\ req[r].pc = "observe"
  /\ JobDuration' = JobDuration + 1
  /\ Set(r, [req[r] EXCEPT !.pc = "dec"])
  /\ UNCHANGED <<hw, updates, JobsTotal, JobsInProgress>>

(* auto.go:42 *)
DecJobsInProgress(r) ==
  /\ req[r].pc = "dec"
  /\ JobsInProgress' = JobsInProgress - 1
  /\ Set(r, [req[r] EXCEPT !.pc = "done"])
  /\ UNCHANGED <<hw, updates, JobsTotal, JobDuration>>

HandlerFunc(r) ==
  \/ CheckPath(r)
  \/ IncJobsTotal(r)
  \/ IncJobsInProgress(r)
  \/ ClientAddress(r)
  \/ LookupHardware(r)
  \/ AllowGate(r)
  \/ FoundChain(r)
  \/ FoundScript(r)
  \/ Switch(r)
  \/ CustomScriptBody(r)
  \/ WriteScript(r)
  \/ ObserveDuration(r)
  \/ DecJobsInProgress(r)

Next == \E r \in Reqs : HandlerFunc(r)

Spec == Init /\ [][Next]_vars

(* ---------------------------------------------------------------------- *)
(* The inventory service replaces the custom fields of the record while a  *)
(* request holds a reference to it.                                        *)
(* ---------------------------------------------------------------------- *)

UpdateCustomFields ==
  /\ updates < MaxUpdates
  /\ \E u \in ChainSamples \cup {<<>>}, s \in ScriptSamples \cup {""} :
       /\ hw' = [hw EXCEPT !.url = u, !.script = s]
       /\ hw' # hw
  /\ updates' = updates + 1
  /\ UNCHANGED <<req, metrics>>

StableRecords ==
  { rec \in HardwareRecords :
      rec.allow /\ rec.ipMAC = IfaceMAC /\ rec.arch = "" /\ rec.instance = None }

(* One authorized request while the inventory is being updated. *)
InitRace ==
  /\ req = [r \in Reqs |->
              IF r = 1
                THEN NewRequest("start", <<"/", "auto.ipxe">>,
                                <<"10.0.0.5", ":", "4000">>)
                ELSE Idle]
  /\ hw \in StableRecords
  /\ updates = 0
  /\ InitMetrics

NextRace == Next \/ UpdateCustomFields

SpecRace == InitRace /\ [][NextRace]_vars

ConcRecords ==
  { rec \in HardwareRecords :
      /\ rec.ipMAC = IfaceMAC
      /\ rec.arch = ""
      /\ rec.instance = None
      /\ rec.url \in {<<>>, ChainHTTP} }

ConcPaths == { <<"/", "auto.ipxe">>, <<"/", "auto.ipxe", "/", "snp.efi">> }

ConcAddrs ==
  { <<"10.0.0.5", ":", "4000">>, <<"10.0.0.9", ":", "4000">>, <<"10.0.0.5">> }

(* Every slot handles a request, concurrently with the others. *)
InitConc ==
  /\ req \in [Reqs -> {NewRequest("start", p, a) : p \in ConcPaths, a \in ConcAddrs}]
  /\ hw \in ConcRecords
  /\ updates = 0
  /\ InitMetrics

SpecConc == InitConc /\ [][Next]_vars

(* ---------------------------------------------------------------------- *)
(* Properties                                                              *)
(* ---------------------------------------------------------------------- *)

Active == {r \in Reqs : req[r].pc # "idle"}

(* The request passed the path check of HandlerFunc. *)
PassedPathCheck(q) == q.pc \notin {"idle", "start"} /\ Base(q.path) = "auto.ipxe"

(* The handler body is over: the response is decided. *)
Returned(q) == q.pc \in {"observe", "dec", "done"}

(* serveBootScript has chosen between auto.ipxe and custom.ipxe. *)
Selected(q) == q.entered /\ q.pc \notin {"found", "found script"}

(* serveBootScript is past the first step of its switch. *)
PastSwitch(q) == Selected(q) /\ q.pc # "switch"

(* The custom fields of the record for the MAC of the request's address. *)
RecordChain(q) == IPXEURL(hw, GetMAC(hw, q.ip))

RecordScript(q) == IPXEScript(hw, GetMAC(hw, q.ip))

(* url.URL.String for the part of a URL the model keeps. *)
URLString(u) == u.Scheme \o <<":">> \o u.Rest

HasPrefix(s, pre) == Len(s) >= Len(pre) /\ SubSeq(s, 1, Len(pre)) = pre

ChainAccepted(chain) ==
  /\ chain # <<>>
  /\ ~urlParse(chain).err
  /\ urlParse(chain).Scheme \in {SchemeHTTP, SchemeHTTPS}

(* C1: a request whose path.Base is not "auto.ipxe" gets 404 at once: no *)
(* call of Finder.ByIP, and JobsTotal, JobsInProgress and JobDuration     *)
(* stay untouched (one request is handled, so they stay 0).               *)
C1_OtherPathsOnly404 ==
  \A r \in Active :
    (req[r].pc # "start" /\ Base(req[r].path) # "auto.ipxe") =>
      /\ req[r].pc = "done"
      /\ req[r].status = 404
      /\ req[r].lookups = 0
      /\ ~req[r].entered
      /\ req[r].body = None
      /\ JobsTotal = 0
      /\ JobsInProgress = 0
      /\ JobDuration = 0

C1_Witness ==
  \E r \in Active :
    /\ req[r].pc = "done"
    /\ req[r].path = <<"/", "auto.ipxe", "/", "snp.efi">>
    /\ req[r].status = 404

(* C2: when the record found for the client does not allow netboot for    *)
(* the resolved MAC (flag false, or no interface with that MAC), the      *)
(* response is 404 and serveBootScript is not entered: nothing is         *)
(* selected, rendered or written, whatever the custom fields hold.        *)
C2_GateBeforeScripts ==
  \A r \in Active :
    ( /\ req[r].lookups > 0
      /\ ~ByIP(req[r].ip).err
      /\ req[r].pc \notin {"lookup", "gate"}
      /\ ~HardwareAllowPXE(hw, GetMAC(hw, req[r].ip)) ) =>
      /\ Returned(req[r])
      /\ req[r].status = 404
      /\ ~req[r].entered
      /\ req[r].selURL = None /\ req[r].selScript = None
      /\ req[r].renURL = None /\ req[r].renScript = None
      /\ req[r].hook = None /\ req[r].custom = None
      /\ req[r].script = None /\ req[r].body = None

C2_Witness ==
  \E r \in Active :
    /\ req[r].pc = "done"
    /\ req[r].outcome = "not allowed"
    /\ req[r].status = 404
    /\ hw.allow /\ hw.ipMAC = ZeroMAC
    /\ hw.url = ChainHTTP /\ hw.script # ""

(* C3: a request to auto.ipxe whose peer address does not split into host *)
(* and port, or whose host is no IP address, ends with 500 and without a  *)
(* call of Finder.ByIP.                                                   *)
C3_BadAddressIs500 ==
  \A r \in Active :
    ( /\ req[r].pc = "done"
      /\ Base(req[r].path) = "auto.ipxe"
      /\ \/ SplitHostPort(req[r].remoteAddr).err
         \/ ParseIP(SplitHostPort(req[r].remoteAddr).host) = NilIP ) =>
      /\ req[r].status = 500
      /\ req[r].lookups = 0

C6_DefaultScriptArch ==
  \A r \in Active :
    /\ ( /\ req[r].entered
         /\ RecordChain(req[r]) = <<>>
         /\ RecordScript(req[r]) = "" ) =>
         LET a == HardwareArch(hw, GetMAC(hw, req[r].ip)) IN
           /\ Selected(req[r]) => req[r].name = "auto.ipxe"
           /\ PastSwitch(req[r]) =>
                /\ req[r].hook # None
                /\ req[r].custom = None
                /\ req[r].hook[1].Arch = (IF a = "" THEN "x86_64" ELSE a)
    /\ req[r].hook # None => req[r].hook[1].Arch # ""

C6_Witness ==
  \E r \in Active :
    /\ req[r].outcome = "served"
    /\ hw.arch = ""
    /\ req[r].hook # None
    /\ req[r].hook[1].Arch = "x86_64"

(* C7: in every Hook built by defaultScript, WorkerID is the instance's   *)
(* id when there is an instance with a non-empty id, and the text of the  *)
(* resolved MAC otherwise; HWAddr is always the text of the MAC.          *)
C7_WorkerID ==
  \A r \in Active :
    req[r].hook # None =>
      LET mac  == GetMAC(hw, req[r].ip)
          inst == hw.instance
      IN /\ req[r].hook[1].HWAddr = MACString(mac)
         /\ (inst = None \/ inst[1].ID = "") =>
              req[r].hook[1].WorkerID = MACString(mac)
         /\ (inst # None /\ inst[1].ID # "") =>
              req[r].hook[1].WorkerID = inst[1].ID

C7_Witness ==
  \E r \in Active :
    /\ req[r].outcome = "served"
    /\ hw.instance = Some([ID |-> ""])
    /\ req[r].hook # None
    /\ req[r].hook[1].WorkerID = "aa:bb:cc:dd:ee:ff"
    /\ req[r].hook[1].HWAddr = "aa:bb:cc:dd:ee:ff"

FailureOutcomes ==
  { "bad address", "no hardware", "not allowed", "default script error",
    "custom script error", "no custom script", "script not found",
    "write error" }

(* C8: on every failure branch (bad peer address, failed lookup, netboot  *)
(* not allowed, default or custom script error, unknown script name,      *)
(* failed write) the span status is Error when the handler returns; on    *)
(* success it is not.                                                     *)
C8_SpanErrorOnFailure ==
  \A r \in Active :
    req[r].pc = "done" =>
      /\ req[r].outcome \in FailureOutcomes => req[r].span = "Error"
      /\ req[r].outcome = "served" => req[r].span # "Error"

(* C9: a request ends in "no custom script or chain defined" only when    *)
(* the record was updated during the request and a custom field read by   *)
(* customScript differs from what customScriptFound read from it.         *)
C9_NoCustomOnlyByRace ==
  \A r \in Active :
    req[r].outcome = "no custom script" =>
      /\ updates > 0
      /\ req[r].status = 500
      /\ req[r].renURL = Some(<<>>) /\ req[r].renScript = Some("")
      /\ \/ req[r].selURL # req[r].renURL
         \/ req[r].selScript # None /\ req[r].selScript # req[r].renScript

C9_Witness ==
  \E r \in Active :
    /\ req[r].pc = "done"
    /\ req[r].outcome = "no custom script"
    /\ req[r].selURL = Some(ChainHTTP)

(* The requests counted by the gauge: incremented, not yet decremented. *)
Counted ==
  { r \in Reqs : PassedPathCheck(req[r])
                 /\ req[r].pc \notin {"total", "inprogress", "done"} }

InHandler == { r \in Reqs : PassedPathCheck(req[r]) /\ req[r].pc # "done" }

(* C10 as stated: at every moment JobsInProgress is the number of         *)
(* requests that passed the path check and have not returned, and         *)
(* JobsTotal the number of requests that passed the path check.           *)
C10_GaugeAlwaysExact ==
  /\ JobsInProgress = Cardinality(InHandler)
  /\ JobsTotal = Cardinality({r \in Reqs : PassedPathCheck(req[r])})

(* C10, amended: JobsInProgress is the number of requests between their   *)
(* increment and their deferred decrement, never more than the requests   *)
(* inside the handler; every exit path decrements and observes once; once *)
(* all requests are done the gauge is back at 0 and JobsTotal is the      *)
(* number of requests that passed the path check.                         *)
C10_GaugeBalanced ==
  /\ JobsInProgress = Cardinality(Counted)
  /\ JobsInProgress <= Cardinality(InHandler)
  /\ JobsTotal =
       Cardinality({r \in Reqs : PassedPathCheck(req[r]) /\ req[r].pc # "total"})
  /\ JobDuration =
       Cardinality({r \in Reqs : PassedPathCheck(req[r])
                                 /\ req[r].pc \in {"dec", "done"}})
  /\ (\A r \in Reqs : req[r].pc = "done") =>
       /\ JobsInProgress = 0
       /\ JobsTotal = Cardinality({r \in Reqs : Base(req[r].path) = "auto.ipxe"})

C10_Witness ==
  /\ \A r \in Reqs : req[r].pc = "done"
  /\ JobsInProgress = 0
  /\ JobsTotal >= 2
  /\ \E r1, r2 \in Reqs :
       /\ req[r1].outcome = "served"
       /\ req[r2].outcome = "bad address"

====
